---- MODULE Spec2Model ----
(***************************************************************************)
(* Model of the room coordinator of src/src/multiplayer.mjs: the attach    *)
(* operation ChatRoom.handleSession, the buffering done by _pauseWebSocket,*)
(* the steady-state message listener with handleBinaryMessage, and the     *)
(* close/error handler.  The data client and the lock client live in       *)
(* ../public/ and are modelled from their specification.                   *)
(***************************************************************************)
EXTENDS Integers, Sequences, FiniteSets, TLC

(* ----------------------------- bounds --------------------------------- *)
\* total number of inbound frames the transports deliver in one behaviour
MaxFrames == 3
\* cap on the length of a _pauseWebSocket queue (the replay loop can grow it)
MaxQueue == 3
\* number of close / error events one transport delivers
MaxEvents == 2

(* ----------------------------- universe ------------------------------- *)
Sessions == {"s1", "s2", "s3"}
\* the connections of the two-session specifications
Pair == {"s1", "s2"}
Null == "null"
None == "none"
PlayerIds == {"a", "b"}
LockNames == {"L"}
MapIds == {"x1"}

\* the playerId query parameter a connection may carry (line 259)
UrlPlayerIds(s) ==
  IF s = "s1" THEN {"a"} ELSE IF s = "s2" THEN {"a", "b", Null} ELSE {""}

\* `if (playerId)` (line 561): null and the empty string are falsy
Truthy(p) == p \notin {Null, ""}

schemaArrayNames == <<"worldApps">>
StorageKeys == {"worldApps", "crdt"} \cup MapIds
\* content of durable storage under the schema array key
StoredArray == <<"x1">>

\* dead-hand keys: "<arrayId>" and "<arrayId>.<arrayIndexId>", as segments
HandKeys == {<<"worldApps">>, <<"worldApps", "x1">>}

VARIABLES
  pc,                  \* position of each connection's handleSession
  playerId,            \* handleSession local playerId
  sessions,            \* this.sessions
  quit,                \* session.quit
  wsOpen,              \* transport still open (send succeeds)
  msgHandlers,         \* 'message' listeners of the socket, in registration order
  closeHandlers,       \* closeOrErrorHandler registered on 'close'/'error'
  queue,               \* _pauseWebSocket queue
  ri,                  \* position of the for-of iterator of the replay loop
  sent,                \* frames sent on each transport
  arrived,             \* frames delivered by each transport
  dispatched,          \* frames handled by the steady-state listener
  nframes,             \* number of frames delivered so far
  dataClientPromises,  \* entry of the room in dataClientPromises (0 = absent)
  crdtClientPromises,
  lockClientPromises,
  dataPromise,         \* the promises created for the data client
  crdtPromise,
  lockPromise,
  my,                  \* the promises a handleSession call awaits
  reads,               \* storage.get calls per key
  pendingAtAccept,     \* the attach started while initialization was in flight
  arrayKeys,           \* data client: arrayIndexIds present in worldApps
  handOwner,           \* data client: owner of each hand key
  dhListeners,         \* sessions whose deadhand/livehand listeners are registered
  deadHands,           \* per-session deadHands Map (keys in insertion order)
  holders,             \* lock client: holder(s) of each lock
  lockQueue,           \* lock client: FIFO of waiters of each lock
  lockEmitted,         \* lock client: lockResponse events emitted so far
  crdtState,           \* document-CRDT client: its state-as-update
  storageCrdt,         \* durable storage: the bytes under key 'crdt'
  puts,                \* storage.put('crdt', ...) calls issued and not yet completed
  events,              \* close / error events delivered by each transport
  joinEmits            \* data client: the join updates emitted into it

connVars == <<pc, playerId, quit, wsOpen, msgHandlers, closeHandlers, queue, ri>>
histVars == <<arrived, dispatched, nframes>>
initVars == <<dataClientPromises, crdtClientPromises, lockClientPromises,
              dataPromise, crdtPromise, lockPromise, my, reads, pendingAtAccept>>
dataVars == <<arrayKeys, handOwner, dhListeners, deadHands>>
lockVars == <<holders, lockQueue, lockEmitted>>
crdtVars == <<crdtState, storageCrdt, puts>>
vars == <<connVars, sessions, sent, histVars, initVars, dataVars, lockVars, crdtVars, events, joinEmits>>

(* ----------------------------- frames --------------------------------- *)
Frame(c, o, k, p) == [cls |-> c, op |-> o, key |-> k, pid |-> p]
Msg(t, f, b) == [type |-> t, from |-> f, body |-> b]

DataFrames ==
  {Frame("data", "add", <<"worldApps", x>>, "-") : x \in MapIds}
  \cup {Frame("data", o, k, p) : o \in {"claim", "unclaim"}, k \in HandKeys, p \in PlayerIds}
LockFrames == {Frame("lock", o, <<l>>, "-") :
                 o \in {"lockRequest", "lockResponse", "lockRelease"}, l \in LockNames}
IrcFrames == {Frame("irc", "chat", <<>>, "-")}
CrdtFrames == {Frame("crdt", "update", <<>>, "-")}
MediaFrames == {Frame("audio", "audio", <<>>, "-"), Frame("video", "video", <<>>, "-")}
StaleFrames == {Frame("data", "stale", <<"worldApps", "x1">>, "-")}
TextFrames == {Frame("text", "text", <<>>, "-")}
AllFrames == DataFrames \cup StaleFrames \cup CrdtFrames \cup LockFrames \cup IrcFrames
             \cup MediaFrames \cup TextFrames

Range(q) == {q[i] : i \in 1..Len(q)}

RECURSIVE SetToSeq(_)
SetToSeq(S) == IF S = {} THEN <<>> ELSE LET x == CHOOSE x \in S : TRUE IN <<x>> \o SetToSeq(S \ {x})

IsPrefix(p, q) == Len(p) <= Len(q) /\ \A i \in 1..Len(p) : p[i] = q[i]

\* the JavaScript thread is inside the replay loop of _resumeWebsocket
Busy == \E s \in Sessions : pc[s] = "replay"

Init ==
  /\ pc = [s \in Sessions |-> "new"]
  /\ playerId = [s \in Sessions |-> Null]
  /\ sessions = <<>>
  /\ quit = [s \in Sessions |-> FALSE]
  /\ wsOpen = [s \in Sessions |-> TRUE]
  /\ msgHandlers = [s \in Sessions |-> <<>>]
  /\ closeHandlers = [s \in Sessions |-> FALSE]
  /\ queue = [s \in Sessions |-> <<>>]
  /\ ri = [s \in Sessions |-> 0]
  /\ sent = [s \in Sessions |-> <<>>]
  /\ arrived = [s \in Sessions |-> <<>>]
  /\ dispatched = [s \in Sessions |-> <<>>]
  /\ nframes = 0
  /\ dataClientPromises = 0
  /\ crdtClientPromises = 0
  /\ lockClientPromises = 0
  /\ dataPromise = <<>>
  /\ crdtPromise = <<>>
  /\ lockPromise = <<>>
  /\ my = [s \in Sessions |-> [data |-> 0, crdt |-> 0, lock |-> 0]]
  /\ reads = [k \in StorageKeys |-> 0]
  /\ pendingAtAccept = [s \in Sessions |-> FALSE]
  /\ arrayKeys = {}
  /\ handOwner = [k \in HandKeys |-> None]
  /\ dhListeners = {}
  /\ deadHands = [s \in Sessions |-> <<>>]
  /\ holders = [l \in LockNames |-> {}]
  /\ lockQueue = [l \in LockNames |-> <<>>]
  /\ lockEmitted = <<>>
  /\ crdtState = 0
  /\ storageCrdt = 0
  /\ puts = <<>>
  /\ events = [s \in Sessions |-> 0]
  /\ joinEmits = <<>>

(* ------------------- single-flight room-state init -------------------- *)
\* the lookup result is ignored: every attach initializes the room again
NeedsInitAlways(entry) == TRUE

\* `if (!dataClientPromise)` after the Map lookup (lines 270-271, 284-285, 301-302)
NeedsInit(entry) == entry = 0

\* the session listener is live from the start: nothing is buffered
AcceptHandlersLive == <<"session">>

\* the 'message' listeners on the socket once _pauseWebSocket returned (line 310)
AcceptHandlers == <<"pause">>

\* webSocket.accept() up to the first await of handleSession (lines 257-312)
Accept(s) ==
  /\ pc[s] = "new"
  /\ ~Busy
  /\ \E p \in UrlPlayerIds(s) : playerId' = [playerId EXCEPT ![s] = p]
  /\ LET newData == NeedsInit(dataClientPromises)
         newCrdt == NeedsInit(crdtClientPromises)
         newLock == NeedsInit(lockClientPromises)
         dp == IF newData
                 THEN Append(dataPromise, [st |-> "pending", todo |-> <<schemaArrayNames[1]>>,
                                           crdt |-> {}])
                 ELSE dataPromise
         cp == IF newCrdt THEN Append(crdtPromise, [st |-> "pending"]) ELSE crdtPromise
         lp == IF newLock THEN Append(lockPromise, [st |-> "resolved"]) ELSE lockPromise
         d == IF newData THEN Len(dp) ELSE dataClientPromises
         c == IF newCrdt THEN Len(cp) ELSE crdtClientPromises
         l == IF newLock THEN Len(lp) ELSE lockClientPromises
     IN /\ dataPromise' = dp
        /\ crdtPromise' = cp
        /\ lockPromise' = lp
        /\ dataClientPromises' = d
        /\ crdtClientPromises' = c
        /\ lockClientPromises' = l
        /\ my' = [my EXCEPT ![s] = [data |-> d, crdt |-> c, lock |-> l]]
        /\ reads' = [k \in StorageKeys |->
                       reads[k] + (IF newData /\ k = schemaArrayNames[1] THEN 1 ELSE 0)
                                + (IF newCrdt /\ k = "crdt" THEN 1 ELSE 0)]
        /\ pendingAtAccept' = [pendingAtAccept EXCEPT ![s] =
                                 ~newData /\ dataPromise[dataClientPromises].st = "pending"]
  /\ msgHandlers' = [msgHandlers EXCEPT ![s] = AcceptHandlers]
  /\ pc' = [pc EXCEPT ![s] = "awaiting"]
  /\ UNCHANGED <<quit, wsOpen, closeHandlers, queue, ri, sessions, sent,
                 histVars, crdtVars, events, joinEmits, dataVars, lockVars>>

\* one storage.get of readCrdtFromStorage completes (lines 143-158, 272-282)
DataRead(id, ok) ==
  /\ ~Busy
  /\ id \in 1..Len(dataPromise)
  /\ dataPromise[id].st = "pending"
  /\ LET p == dataPromise[id]
         key == Head(p.todo)
         isArray == key \in Range(schemaArrayNames)
         todo == IF isArray THEN StoredArray \o Tail(p.todo) ELSE Tail(p.todo)
         crdt == p.crdt \cup {key}
     IN IF ~ok
          THEN /\ dataPromise' = [dataPromise EXCEPT ![id].st = "rejected"]
               /\ UNCHANGED <<reads, arrayKeys>>
          ELSE IF todo = <<>>
                 THEN /\ dataPromise' = [dataPromise EXCEPT ![id] =
                                           [st |-> "resolved", todo |-> <<>>, crdt |-> crdt]]
                      /\ arrayKeys' = crdt \cap MapIds
                      /\ UNCHANGED reads
                 ELSE /\ dataPromise' = [dataPromise EXCEPT ![id] =
                                           [st |-> "pending", todo |-> todo, crdt |-> crdt]]
                      /\ reads' = [reads EXCEPT ![Head(todo)] = @ + 1]
                      /\ UNCHANGED arrayKeys
  /\ UNCHANGED <<connVars, sessions, sent, histVars, crdtVars, events, joinEmits, dataClientPromises, crdtClientPromises,
                 lockClientPromises, crdtPromise, lockPromise, my, pendingAtAccept,
                 handOwner, dhListeners, deadHands, lockVars>>

\* storage.get('crdt') completes (lines 286-298)
CrdtRead(id, ok) ==
  /\ ~Busy
  /\ id \in 1..Len(crdtPromise)
  /\ crdtPromise[id].st = "pending"
  /\ crdtPromise' = [crdtPromise EXCEPT ![id].st = IF ok THEN "resolved" ELSE "rejected"]
  /\ crdtState' = IF ok THEN storageCrdt ELSE crdtState
  /\ UNCHANGED <<storageCrdt, puts, events, joinEmits>>
  /\ UNCHANGED <<connVars, sessions, sent, histVars, dataClientPromises, crdtClientPromises,
                 lockClientPromises, dataPromise, lockPromise, my, reads, pendingAtAccept,
                 dataVars, lockVars>>

\* an awaited promise rejected: handleSession throws at lines 312-314
AttachFails(s) ==
  /\ pc[s] = "awaiting"
  /\ ~Busy
  /\ \/ dataPromise[my[s].data].st = "rejected"
     \/ /\ dataPromise[my[s].data].st = "resolved"
        /\ crdtPromise[my[s].crdt].st = "rejected"
  /\ pc' = [pc EXCEPT ![s] = "failed"]
  /\ UNCHANGED <<playerId, quit, wsOpen, msgHandlers, closeHandlers, queue, ri,
                 sessions, sent, histVars, crdtVars, events, joinEmits, initVars, dataVars, lockVars>>

(* --------------------- broadcast primitives --------------------------- *)
\* the loop `for (const s of list) s.webSocket.send(m)`: a send on a closed
\* transport throws, which ends the loop (no try/catch at lines 468-480)
Broadcast(snt, targets, m) ==
  LET bad == {i \in 1..Len(targets) : ~wsOpen[targets[i]]}
      n == IF bad = {} THEN Len(targets) + 1
           ELSE CHOOSE i \in bad : \A j \in bad : i <= j
      reached == {targets[i] : i \in 1..(n - 1)}
  IN [sent |-> [t \in Sessions |-> IF t \in reached THEN Append(snt[t], m) ELSE snt[t]],
      threw |-> bad # {}]

\* every accepted socket but the sender's, whether or not it is in the list yet
ProxyTargetsAll(list, from) ==
  SelectSeq(SetToSeq({t \in Sessions : pc[t] # "new"}), LAMBDA t : t # from)

\* the sessions proxyMessageToPeers sends to (lines 469-470)
ProxyTargets(list, from) == SelectSeq(list, LAMBDA t : t # from)

\* lines 468-474
proxyMessageToPeers(snt, list, from, m) == Broadcast(snt, ProxyTargets(list, from), m)

\* lines 476-480
reflectMessageToPeers(snt, list, m) == Broadcast(snt, list, m)

\* lines 463-465
respondToSelf(snt, s, m) ==
  IF wsOpen[s] THEN [sent |-> [snt EXCEPT ![s] = Append(@, m)], threw |-> FALSE]
  ELSE [sent |-> snt, threw |-> TRUE]

(* ---------------------------- data client ----------------------------- *)
\* DataClient.applyUint8Array: a stale update is rejected with a rollback
DataApply(f) == [rollback |-> f.op = "stale", update |-> f.op # "stale"]

\* the maps of worldApps after the update is applied
DataArrayKeys(f) ==
  IF f.op = "add" THEN arrayKeys \cup {f.key[2]}
  ELSE IF f.op = "remove" THEN arrayKeys \ {f.key[2]}
  ELSE arrayKeys

\* the owner of each hand key after the update is applied
DataHandOwner(f) ==
  IF f.op = "claim" THEN [handOwner EXCEPT ![f.key] = f.pid]
  ELSE IF f.op = "unclaim" /\ handOwner[f.key] = f.pid THEN [handOwner EXCEPT ![f.key] = None]
  ELSE handOwner

\* the deadhand / livehand events DataClient.emitUpdate dispatches: a key has
\* at most one owner, so a claim first releases the previous owner's hand
HandEvents(f) ==
  IF f.op = "claim"
    THEN (IF handOwner[f.key] \notin {None, f.pid}
            THEN <<[type |-> "livehand", key |-> f.key, hand |-> handOwner[f.key]]>>
            ELSE <<>>)
         \o <<[type |-> "deadhand", key |-> f.key, hand |-> f.pid]>>
  ELSE IF f.op = "unclaim" /\ handOwner[f.key] = f.pid
    THEN <<[type |-> "livehand", key |-> f.key, hand |-> f.pid]>>
  ELSE <<>>

\* the two regular expressions of the deadhand listener (lines 415-427)
ParseKey(k) ==
  IF Len(k) = 2 THEN [arrayId |-> k[1], arrayIndexId |-> k[2]]
  ELSE [arrayId |-> k[1], arrayIndexId |-> Null]

\* `if (deadHand === playerId)` / `if (liveHand === playerId)` (lines 411, 437)
HandMatches(hand, pid) == hand = pid

\* the 'deadhand' listener of one session (lines 409-434); Map.set keeps the
\* position of a key that is already present
DeadhandListener(table, pid, e) ==
  IF HandMatches(e.hand, pid) /\ e.key \notin Range(table) THEN Append(table, e.key)
  ELSE table

\* the 'livehand' listener of one session (lines 435-443)
LivehandListener(table, pid, e) ==
  IF HandMatches(e.hand, pid) THEN SelectSeq(table, LAMBDA k : k # e.key)
  ELSE table

RECURSIVE HandListeners(_, _, _)
\* the listeners of one session run on every event of an emitUpdate
HandListeners(table, pid, es) ==
  IF es = <<>> THEN table
  ELSE HandListeners(IF Head(es).type = "deadhand"
                       THEN DeadhandListener(table, pid, Head(es))
                       ELSE LivehandListener(table, pid, Head(es)),
                     pid, Tail(es))

\* every registered session's table after the events of one update
DeadHandsAfter(es) ==
  [t \in Sessions |-> IF t \in dhListeners THEN HandListeners(deadHands[t], playerId[t], es)
                      ELSE deadHands[t]]

(* ---------------------------- lock client ----------------------------- *)
LockState == [holders |-> holders, queue |-> lockQueue, emitted |-> lockEmitted]

LockResponse(p, l) == [playerId |-> p, lockName |-> l]

\* every request is granted, whoever holds the lock
LockRequestAlwaysGrant(st, p, l) ==
  [st EXCEPT !.holders[l] = @ \cup {p}, !.emitted = Append(@, LockResponse(p, l))]

\* free: grant; held by the requester: re-emit; held by another: queue
LockRequest(st, p, l) ==
  IF st.holders[l] = {}
    THEN [st EXCEPT !.holders[l] = {p}, !.emitted = Append(@, LockResponse(p, l))]
  ELSE IF p \in st.holders[l]
    THEN [st EXCEPT !.emitted = Append(@, LockResponse(p, l))]
  ELSE [st EXCEPT !.queue[l] = Append(@, p)]

\* release by the holder frees the lock or promotes the head of the queue;
\* release by anyone else is ignored
LockRelease(st, p, l) ==
  IF p \notin st.holders[l] THEN st
  ELSE IF st.queue[l] = <<>> THEN [st EXCEPT !.holders[l] = {}]
  ELSE [st EXCEPT !.holders[l] = {Head(st.queue[l])},
                  !.queue[l] = Tail(st.queue[l]),
                  !.emitted = Append(@, LockResponse(Head(st.queue[l]), l))]

\* NetworkedLockClient.handle
LockHandle(st, e) ==
  IF e.type = "lockRequest" THEN LockRequest(st, e.playerId, e.lockName)
  ELSE IF e.type = "lockRelease" THEN LockRelease(st, e.playerId, e.lockName)
  ELSE st

RECURSIVE LockHandleAll(_, _)
LockHandleAll(st, es) ==
  IF es = <<>> THEN st ELSE LockHandleAll(LockHandle(st, Head(es)), Tail(es))

\* NetworkedLockClient.serverUnlockSession: a lockRelease for every lock the
\* session's playerId holds and for every queue entry with that playerId
serverUnlockSession(st, p) ==
  LET rel(l) == [type |-> "lockRelease", playerId |-> p, lockName |-> l]
      held == {l \in LockNames : p \in st.holders[l]}
      pending(l) == SelectSeq(st.queue[l], LAMBDA q : q = p)
      RECURSIVE Pend(_)
      Pend(ls) == IF ls = <<>> THEN <<>>
                  ELSE [i \in 1..Len(pending(Head(ls))) |-> rel(Head(ls))] \o Pend(Tail(ls))
      byHeld == SetToSeq(held)
  IN LockHandleAll(st, [i \in 1..Len(byHeld) |-> rel(byHeld[i])] \o Pend(SetToSeq(LockNames)))

(* ------------------------ steady-state dispatch ----------------------- *)
\* the state a handler leaves behind when it changes nothing
Same == [sent |-> sent, threw |-> FALSE, arrayKeys |-> arrayKeys, handOwner |-> handOwner,
         deadHands |-> deadHands, lock |-> LockState, crdt |-> crdtState, puts |-> puts]

\* the update is forwarded whether or not the data client accepted it
UpdatePresentAlways(a) == TRUE

\* `if (update)` (line 502)
UpdatePresent(a) == a.update

\* the listener persists nothing
CrdtUpdateListenerNone(ps, state) == ps

\* the 'update' listener of the document-CRDT client calls
\* storage.put('crdt', crdtClient.getStateAsUpdate()) (lines 292-296)
CrdtUpdateListener(ps, state) == Append(ps, state)

\* NetworkedCrdtClient.update: the update is merged into the state
CrdtUpdate(state) == state + 1

\* the MessageEvent the lock branch builds from the frame (lines 513-545)
LockEvent(s, f) == [type |-> f.op, playerId |-> playerId[s], lockName |-> f.key[1]]

\* handleBinaryMessage (lines 491-558)
handleBinaryMessage(s, f) ==
  IF f.cls = "data"
    THEN LET a == DataApply(f)
             rb == IF a.rollback THEN respondToSelf(sent, s, Msg("rollback", "server", f))
                   ELSE [sent |-> sent, threw |-> FALSE]
             px == proxyMessageToPeers(rb.sent, sessions, s, Msg("fwd", s, f))
         IN IF rb.threw \/ ~UpdatePresent(a)
              THEN [Same EXCEPT !.sent = rb.sent, !.threw = rb.threw]
            ELSE [Same EXCEPT !.sent = px.sent, !.threw = px.threw,
                              !.arrayKeys = DataArrayKeys(f),
                              !.handOwner = DataHandOwner(f),
                              !.deadHands = DeadHandsAfter(HandEvents(f))]
  ELSE IF f.cls = "crdt"
    THEN LET st == CrdtUpdate(crdtState)
             px == proxyMessageToPeers(sent, sessions, s, Msg("fwd", s, f))
         IN [Same EXCEPT !.crdt = st, !.puts = CrdtUpdateListener(puts, st),
                         !.sent = px.sent, !.threw = px.threw]
  ELSE IF f.cls = "lock"
    THEN [Same EXCEPT !.lock = LockHandle(LockState, LockEvent(s, f))]
  ELSE IF f.cls = "irc"
    THEN LET rx == reflectMessageToPeers(sent, sessions, Msg("fwd", s, f))
         IN [Same EXCEPT !.sent = rx.sent, !.threw = rx.threw]
  ELSE IF f.cls \in {"audio", "video"}
    THEN LET px == proxyMessageToPeers(sent, sessions, s, Msg("fwd", s, f))
         IN [Same EXCEPT !.sent = px.sent, !.threw = px.threw]
  ELSE Same

\* the error goes to every session of the list
ErrorReportAll(snt, s, f) == reflectMessageToPeers(snt, sessions, Msg("error", "server", f)).sent

\* the catch block: webSocket.send(JSON.stringify({error})) (lines 670-675)
ErrorReport(snt, s, f) == respondToSelf(snt, s, Msg("error", "server", f)).sent

\* the 'message' listener registered by handleSession (lines 588-676)
SessionListener(s, f) ==
  IF quit[s] THEN Same
  ELSE LET r == IF f.cls = "text" THEN [Same EXCEPT !.threw = TRUE]
                ELSE handleBinaryMessage(s, f)
       IN IF r.threw
            THEN [r EXCEPT !.sent = ErrorReport(r.sent, s, f)]
            ELSE r

\* a 'message' event on the socket of s runs its listeners in registration order:
\* the _pauseWebSocket listener (lines 171-173) and the session listener
Deliver(s, f) ==
  LET paused == "pause" \in Range(msgHandlers[s])
      live == "session" \in Range(msgHandlers[s])
      r == IF live THEN SessionListener(s, f) ELSE Same
  IN /\ queue' = [queue EXCEPT ![s] = IF paused THEN Append(@, f) ELSE @]
     /\ dispatched' = [dispatched EXCEPT ![s] = IF live /\ ~quit[s] THEN Append(@, f) ELSE @]
     /\ sent' = r.sent
     /\ arrayKeys' = r.arrayKeys
     /\ handOwner' = r.handOwner
     /\ deadHands' = r.deadHands
     /\ holders' = r.lock.holders
     /\ lockQueue' = r.lock.queue
     /\ lockEmitted' = r.lock.emitted
     /\ crdtState' = r.crdt
     /\ puts' = r.puts

\* the transport of s delivers frame f
Message(s, f) ==
  /\ pc[s] \in {"awaiting", "open", "failed"}
  /\ ~Busy
  /\ wsOpen[s]
  /\ nframes < MaxFrames
  /\ nframes' = nframes + 1
  /\ arrived' = [arrived EXCEPT ![s] = Append(@, f)]
  /\ Deliver(s, f)
  /\ UNCHANGED <<pc, playerId, quit, wsOpen, msgHandlers, closeHandlers, ri, sessions,
                 initVars, dhListeners, storageCrdt, events, joinEmits>>

(* --------------------------- attach sequence -------------------------- *)
\* the ids of all sessions, null included
NetworkInitAll(list) == [i \in 1..Len(list) |-> playerId[list[i]]]

\* getNetworkInitMessage (lines 329-337)
NetworkInit(list) ==
  LET ids == [i \in 1..Len(list) |-> playerId[list[i]]]
  IN SelectSeq(ids, LAMBDA p : p # Null)

\* the three snapshot sends (lines 343-348)
SnapshotFrames(list) ==
  <<Msg("import", "server", arrayKeys),
    Msg("crdtinit", "server", "crdt"),
    Msg("networkinit", "server", NetworkInit(list))>>

\* the attach goes on as soon as the data client is there
AwaitsDoneDataOnly(s) == dataPromise[my[s].data].st = "resolved"

\* the three awaits of handleSession returned (lines 312-314)
AwaitsDone(s) ==
  /\ dataPromise[my[s].data].st = "resolved"
  /\ crdtPromise[my[s].crdt].st = "resolved"
  /\ lockPromise[my[s].lock].st = "resolved"

\* handleSession from the awaits to the call of _resumeWebsocket (lines 312-709)
Resume(s) ==
  /\ pc[s] = "awaiting"
  /\ ~Busy
  /\ AwaitsDone(s)
  /\ sessions' = Append(sessions, s)
  /\ IF ~wsOpen[s]
       THEN \* the first send throws
            /\ pc' = [pc EXCEPT ![s] = "failed"]
            /\ UNCHANGED <<sent, dhListeners, msgHandlers, closeHandlers, ri, joinEmits>>
       ELSE LET list == Append(sessions, s)
                snap == [sent EXCEPT ![s] = @ \o SnapshotFrames(list)]
                px == IF Truthy(playerId[s])
                        THEN proxyMessageToPeers(snap, list, s,
                                                 Msg("join", "server", playerId[s]))
                        ELSE [sent |-> snap, threw |-> FALSE]
            IN /\ sent' = px.sent
               /\ joinEmits' = IF Truthy(playerId[s]) THEN Append(joinEmits, playerId[s])
                                ELSE joinEmits
               /\ dhListeners' = dhListeners \cup {s}
               /\ IF px.threw
                    THEN /\ pc' = [pc EXCEPT ![s] = "failed"]
                         /\ UNCHANGED <<msgHandlers, closeHandlers, ri>>
                    ELSE /\ msgHandlers' = [msgHandlers EXCEPT ![s] = Append(@, "session")]
                         /\ closeHandlers' = [closeHandlers EXCEPT ![s] = TRUE]
                         /\ ri' = [ri EXCEPT ![s] = 1]
                         /\ pc' = [pc EXCEPT ![s] = "replay"]
  /\ UNCHANGED <<playerId, quit, wsOpen, queue, histVars, crdtVars, events, initVars,
                 arrayKeys, handOwner, deadHands, lockVars>>

\* one iteration of `for (const data of queue) ws.dispatchEvent(...)` (lines 176-178)
ReplayStep(s) ==
  /\ pc[s] = "replay"
  /\ ri[s] <= Len(queue[s])
  /\ Len(queue[s]) < MaxQueue
  /\ Deliver(s, queue[s][ri[s]])
  /\ ri' = [ri EXCEPT ![s] = @ + 1]
  /\ UNCHANGED <<pc, playerId, quit, wsOpen, msgHandlers, closeHandlers, sessions,
                 arrived, nframes, initVars, dhListeners, storageCrdt, events, joinEmits>>

\* the iterator is exhausted: queue.length = 0, removeEventListener (lines 179-181)
ReplayEnd(s) ==
  /\ pc[s] = "replay"
  /\ ri[s] > Len(queue[s])
  /\ queue' = [queue EXCEPT ![s] = <<>>]
  /\ msgHandlers' = [msgHandlers EXCEPT ![s] = SelectSeq(@, LAMBDA h : h # "pause")]
  /\ ri' = [ri EXCEPT ![s] = 0]
  /\ pc' = [pc EXCEPT ![s] = "open"]
  /\ UNCHANGED <<playerId, quit, wsOpen, closeHandlers, sessions, sent, histVars, crdtVars, events, joinEmits,
                 initVars, dataVars, lockVars>>

(* ------------------------------ close --------------------------------- *)
\* the transport of s closes; from now on a send on it throws
TransportClose(s) ==
  /\ pc[s] # "new"
  /\ ~Busy
  /\ wsOpen[s]
  /\ wsOpen' = [wsOpen EXCEPT ![s] = FALSE]
  /\ UNCHANGED <<pc, playerId, quit, msgHandlers, closeHandlers, queue, ri, sessions, sent,
                 histVars, crdtVars, events, joinEmits, initVars, dataVars, lockVars>>

RECURSIVE DeadHandRemoves(_)
\* the remove updates _triggerDeadHands proxies, in order (lines 353-404)
DeadHandRemoves(keys) ==
  IF keys = <<>> THEN <<>>
  ELSE LET k == ParseKey(Head(keys))
           ids == SelectSeq(SetToSeq(MapIds), LAMBDA x : x \in arrayKeys)
           these == IF k.arrayIndexId # Null
                      THEN (IF k.arrayIndexId \in arrayKeys
                              THEN <<Frame("data", "remove", <<k.arrayId, k.arrayIndexId>>, "-")>>
                              ELSE <<>>)
                      ELSE [i \in 1..Len(ids) |->
                              Frame("data", "remove", <<k.arrayId, ids[i]>>, "-")]
       IN these \o DeadHandRemoves(Tail(keys))

RECURSIVE ProxyAll(_, _, _, _)
\* successive proxyMessageToPeers calls; the first one that throws ends them
ProxyAll(snt, list, from, ms) ==
  IF ms = <<>> THEN [sent |-> snt, threw |-> FALSE]
  ELSE LET px == proxyMessageToPeers(snt, list, from, Msg("remove", "server", Head(ms)))
       IN IF px.threw THEN px ELSE ProxyAll(px.sent, list, from, Tail(ms))

\* _triggerUnlocks (lines 405-407)
TriggerUnlocks(s) == serverUnlockSession(LockState, playerId[s])

\* the listeners stay registered
CleanupKeeps(h) == h

\* cleanup removes the handler from 'close' and 'error' (lines 704-707)
Cleanup(h) == FALSE

\* closeOrErrorHandler with cleanup (lines 680-707)
CloseEvent(s) ==
  /\ ~wsOpen[s]
  /\ closeHandlers[s]
  /\ ~Busy
  /\ events[s] < MaxEvents
  /\ events' = [events EXCEPT ![s] = @ + 1]
  /\ quit' = [quit EXCEPT ![s] = TRUE]
  /\ LET list == SelectSeq(sessions, LAMBDA m : m # s)
         dh == ProxyAll(sent, list, s, DeadHandRemoves(deadHands[s]))
         lk == IF dh.threw THEN LockState ELSE TriggerUnlocks(s)
     IN /\ sessions' = list
        /\ sent' = dh.sent
        /\ holders' = lk.holders
        /\ lockQueue' = lk.queue
        /\ lockEmitted' = lk.emitted
  /\ closeHandlers' = [closeHandlers EXCEPT ![s] = Cleanup(closeHandlers[s])]
  /\ pc' = [pc EXCEPT ![s] = "closed"]
  /\ UNCHANGED <<playerId, wsOpen, msgHandlers, queue, ri, histVars, initVars, dataVars,
                 crdtVars, joinEmits>>

\* a close or error event on a socket that has no closeOrErrorHandler (never
\* registered, or removed by cleanup): no listener runs
LateEvent(s) ==
  /\ pc[s] # "new"
  /\ ~wsOpen[s]
  /\ ~closeHandlers[s]
  /\ ~Busy
  /\ events[s] < MaxEvents
  /\ events' = [events EXCEPT ![s] = @ + 1]
  /\ UNCHANGED <<connVars, sessions, sent, histVars, initVars, dataVars, lockVars, crdtVars,
                 joinEmits>>

\* the oldest storage.put('crdt', ...) in flight completes (line 295)
PutDone(ok) ==
  /\ puts # <<>>
  /\ ~Busy
  /\ storageCrdt' = IF ok THEN Head(puts) ELSE storageCrdt
  /\ puts' = Tail(puts)
  /\ UNCHANGED <<connVars, sessions, sent, histVars, initVars, dataVars, lockVars,
                 crdtState, events, joinEmits>>

(* --------------------------- specifications --------------------------- *)
Promises == 1..Cardinality(Sessions)

\* the whole coordinator: every frame class, storage reads may fail
Next ==
  \/ \E s \in Sessions : Accept(s)
  \/ \E id \in Promises, ok \in BOOLEAN : DataRead(id, ok)
  \/ \E id \in Promises, ok \in BOOLEAN : CrdtRead(id, ok)
  \/ \E s \in Sessions : AttachFails(s)
  \/ \E s \in Sessions : Resume(s)
  \/ \E s \in Sessions : ReplayStep(s)
  \/ \E s \in Sessions : ReplayEnd(s)
  \/ \E s \in Sessions, f \in AllFrames : Message(s, f)
  \/ \E s \in Sessions : TransportClose(s)
  \/ \E s \in Sessions : CloseEvent(s)
  \/ \E s \in Sessions : LateEvent(s)
  \/ \E ok \in BOOLEAN : PutDone(ok)

Spec == Init /\ [][Next]_vars

\* attach and replay: clients send data updates and chat, storage reads may fail
AttachFrames == {Frame("data", "add", <<"worldApps", "x1">>, "-")} \cup IrcFrames

NextAttach ==
  \/ \E s \in Pair : Accept(s)
  \/ \E id \in Promises, ok \in BOOLEAN : DataRead(id, ok)
  \/ \E id \in Promises, ok \in BOOLEAN : CrdtRead(id, ok)
  \/ \E s \in Sessions : AttachFails(s)
  \/ \E s \in Sessions : Resume(s)
  \/ \E s \in Sessions : ReplayStep(s)
  \/ \E s \in Sessions : ReplayEnd(s)
  \/ \E s \in Sessions, f \in AttachFrames : Message(s, f)
  \/ \E s \in Sessions : TransportClose(s)
  \/ \E s \in Sessions : CloseEvent(s)

SpecAttach == Init /\ [][NextAttach]_vars

\* ownership: clients claim and release hand keys, storage reads succeed
HandFrames == {Frame("data", o, <<"worldApps", "x1">>, p) :
                 o \in {"claim", "unclaim"}, p \in PlayerIds}

NextHands ==
  \/ \E s \in Pair : Accept(s)
  \/ \E id \in Promises : DataRead(id, TRUE)
  \/ \E id \in Promises : CrdtRead(id, TRUE)
  \/ \E s \in Sessions : Resume(s)
  \/ \E s \in Sessions : ReplayStep(s)
  \/ \E s \in Sessions : ReplayEnd(s)
  \/ \E s \in Sessions, f \in HandFrames : Message(s, f)
  \/ \E s \in Sessions : TransportClose(s)
  \/ \E s \in Sessions : CloseEvent(s)

SpecHands == Init /\ [][NextHands]_vars

\* locks: clients request and release locks and claim a map, storage reads succeed
LockSpecFrames ==
  {Frame("lock", o, <<l>>, "-") : o \in {"lockRequest", "lockRelease"}, l \in LockNames}
  \cup {Frame("data", "claim", <<"worldApps", "x1">>, "a")}

NextLock ==
  \/ \E s \in Pair : Accept(s)
  \/ \E id \in Promises : DataRead(id, TRUE)
  \/ \E id \in Promises : CrdtRead(id, TRUE)
  \/ \E s \in Sessions : Resume(s)
  \/ \E s \in Sessions : ReplayStep(s)
  \/ \E s \in Sessions : ReplayEnd(s)
  \/ \E s \in Sessions, f \in LockSpecFrames : Message(s, f)
  \/ \E s \in Sessions : TransportClose(s)
  \/ \E s \in Sessions : CloseEvent(s)

SpecLock == Init /\ [][NextLock]_vars

\* persistence: clients send document-CRDT updates, storage writes complete later
NextCrdt ==
  \/ \E s \in Pair : Accept(s)
  \/ \E id \in Promises : DataRead(id, TRUE)
  \/ \E id \in Promises : CrdtRead(id, TRUE)
  \/ \E s \in Sessions : Resume(s)
  \/ \E s \in Sessions : ReplayStep(s)
  \/ \E s \in Sessions : ReplayEnd(s)
  \/ \E s \in Sessions, f \in CrdtFrames : Message(s, f)
  \/ \E s \in Sessions : TransportClose(s)
  \/ \E s \in Sessions : CloseEvent(s)
  \/ \E ok \in BOOLEAN : PutDone(ok)

SpecCrdt == Init /\ [][NextCrdt]_vars

\* routing: clients send chat, media and data updates
RouteFrames == IrcFrames \cup MediaFrames \cup {Frame("data", "add", <<"worldApps", "x1">>, "-")}

NextRoute ==
  \/ \E s \in Pair : Accept(s)
  \/ \E id \in Promises : DataRead(id, TRUE)
  \/ \E id \in Promises : CrdtRead(id, TRUE)
  \/ \E s \in Sessions : Resume(s)
  \/ \E s \in Sessions : ReplayStep(s)
  \/ \E s \in Sessions : ReplayEnd(s)
  \/ \E s \in Sessions, f \in RouteFrames : Message(s, f)
  \/ \E s \in Sessions : TransportClose(s)
  \/ \E s \in Sessions : CloseEvent(s)

SpecRoute == Init /\ [][NextRoute]_vars

\* rejected frames: clients send stale data updates, text frames and chat
RejectFrames == StaleFrames \cup TextFrames \cup IrcFrames

NextReject ==
  \/ \E s \in Pair : Accept(s)
  \/ \E id \in Promises : DataRead(id, TRUE)
  \/ \E id \in Promises : CrdtRead(id, TRUE)
  \/ \E s \in Sessions : Resume(s)
  \/ \E s \in Sessions : ReplayStep(s)
  \/ \E s \in Sessions : ReplayEnd(s)
  \/ \E s \in Sessions, f \in RejectFrames : Message(s, f)
  \/ \E s \in Sessions : TransportClose(s)
  \/ \E s \in Sessions : CloseEvent(s)

SpecReject == Init /\ [][NextReject]_vars

\* termination: clients request a lock and claim a map, sockets deliver further
\* close / error events
CloseFrames ==
  {Frame("lock", "lockRequest", <<l>>, "-") : l \in LockNames}
  \cup {Frame("data", "claim", <<"worldApps", "x1">>, "a")}

NextClose ==
  \/ \E s \in Pair : Accept(s)
  \/ \E id \in Promises : DataRead(id, TRUE)
  \/ \E id \in Promises : CrdtRead(id, TRUE)
  \/ \E s \in Sessions : Resume(s)
  \/ \E s \in Sessions : ReplayStep(s)
  \/ \E s \in Sessions : ReplayEnd(s)
  \/ \E s \in Sessions, f \in CloseFrames : Message(s, f)
  \/ \E s \in Sessions : TransportClose(s)
  \/ \E s \in Sessions : CloseEvent(s)
  \/ \E s \in Sessions : LateEvent(s)

SpecClose == Init /\ [][NextClose]_vars

\* three connections: the first client claims the map for player a
ThreeFrames == {Frame("data", "claim", <<"worldApps", "x1">>, "a")}

NextThree ==
  \/ \E s \in Sessions : Accept(s)
  \/ \E id \in Promises : DataRead(id, TRUE)
  \/ \E id \in Promises : CrdtRead(id, TRUE)
  \/ \E s \in Sessions : Resume(s)
  \/ \E s \in Sessions : ReplayStep(s)
  \/ \E s \in Sessions : ReplayEnd(s)
  \/ \E f \in ThreeFrames : Message("s1", f)
  \/ \E s \in Sessions : TransportClose(s)
  \/ \E s \in Sessions : CloseEvent(s)

SpecThree == Init /\ [][NextThree]_vars

(* ------------------------------ claims -------------------------------- *)
SnapshotsSent(s) ==
  /\ Len(sent[s]) >= 3
  /\ sent[s][1].type = "import"
  /\ sent[s][2].type = "crdtinit"
  /\ sent[s][3].type = "networkinit"

\* C1: no frame of a session reaches the steady-state listener before the three
\* snapshots (import, document-CRDT initial update, network-init) were sent to
\* that session; while the attach awaits the room state every arrived frame
\* sits in the queue
C1_BufferedUntilSnapshots ==
  \A s \in Sessions :
    /\ dispatched[s] # <<>> => SnapshotsSent(s)
    /\ pc[s] = "awaiting" => dispatched[s] = <<>> /\ queue[s] = arrived[s]

\* a frame buffered during the await is dispatched, after the snapshots
C1_Witness ==
  \E s \in Sessions :
    /\ pc[s] = "replay"
    /\ queue[s] # <<>>
    /\ dispatched[s] # <<>>
    /\ dispatched[s][1] = arrived[s][1]
    /\ SnapshotsSent(s)

\* C2: the frames the steady-state listener handled for a session are the frames
\* that arrived on its connection, in arrival order, none of them twice
C2_FifoExactlyOnce ==
  \A s \in Sessions : IsPrefix(dispatched[s], arrived[s])

\* C3: the replay loop makes at most one dispatch per frame buffered during the
\* await, so it ends after that many dispatches
C3_ReplayDrains ==
  \A s \in Sessions : pc[s] = "replay" => ri[s] <= Len(arrived[s]) + 1

\* C4: every frame sent to a session on behalf of another session (a proxied or
\* reflected client frame, a join, a dead-hand remove) comes after that
\* session's import snapshot on its transport
C4_SnapshotBeforeLive ==
  \A s \in Sessions : \A i \in 1..Len(sent[s]) :
    sent[s][i].type \in {"fwd", "join", "remove"}
      => \E j \in 1..(i - 1) : sent[s][j].type = "import"

DataFrom(t, q) == SelectSeq(q, LAMBDA m : m.type = "fwd" /\ m.from = t /\ m.body.cls = "data")

\* T sent data updates before and after S attached: S was forwarded fewer of
\* them than T had dispatched, and at least one
C4_Witness ==
  \E s \in Sessions : \E t \in Sessions \ {s} :
    /\ DataFrom(t, sent[s]) # <<>>
    /\ Len(DataFrom(t, sent[s])) < Len(dispatched[t])
    /\ wsOpen[s]
    /\ \A i \in 1..Len(dispatched[t]) : dispatched[t][i].cls = "data"

\* C5: storage is read at most once for the schema array key and at most once
\* for 'crdt', and all attach operations await the same three promises, hence
\* obtain the same data, document-CRDT and lock client
C5_SingleFlight ==
  /\ reads["worldApps"] <= 1
  /\ reads["crdt"] <= 1
  /\ \A s, t \in Sessions : pc[s] # "new" /\ pc[t] # "new" => my[s] = my[t]

\* two attaches, the second started while initialization was in flight, both
\* completed with the same instances after one read of each key
C5_Witness ==
  \E s \in Sessions : \E t \in Sessions \ {s} :
    /\ pendingAtAccept[t]
    /\ pc[s] = "open"
    /\ pc[t] = "open"
    /\ my[s] = my[t]
    /\ reads["worldApps"] = 1
    /\ reads["crdt"] = 1

\* C6: a hand key is in the deadHands table of at most one session of the room
C6_DeadHandExclusive ==
  \A k \in HandKeys :
    Cardinality({s \in Range(sessions) : k \in Range(deadHands[s])}) <= 1

\* C7: every lock has at most one holder
C7_LockMutex ==
  \A l \in LockNames : Cardinality(holders[l]) <= 1

\* a lock is held while another player waits for it
C7_Witness ==
  \E l \in LockNames :
    /\ holders[l] # {}
    /\ lockQueue[l] # <<>>
    /\ \E i \in 1..Len(lockQueue[l]) : lockQueue[l][i] \notin holders[l]

Handled(s, op, l) ==
  /\ Len(dispatched'[s]) = Len(dispatched[s]) + 1
  /\ dispatched'[s][Len(dispatched'[s])].cls = "lock"
  /\ dispatched'[s][Len(dispatched'[s])].op = op
  /\ dispatched'[s][Len(dispatched'[s])].key = <<l>>

Terminated(s) == ~quit[s] /\ quit'[s]

\* C8: a dispatched lockRequest of player p for lock l emits lockResponse{p, l}
\* or leaves p in the queue of l; when the holder releases l, or its session
\* terminates, while another player heads the queue, that player becomes holder
C8_LockLiveness ==
  [][\A s \in Sessions : \A l \in LockNames :
       /\ Handled(s, "lockRequest", l) =>
            \/ /\ Len(lockEmitted') = Len(lockEmitted) + 1
               /\ lockEmitted'[Len(lockEmitted')] = LockResponse(playerId[s], l)
            \/ \E i \in 1..Len(lockQueue'[l]) : lockQueue'[l][i] = playerId[s]
       /\ ( /\ Handled(s, "lockRelease", l) \/ Terminated(s)
            /\ playerId[s] \in holders[l]
            /\ lockQueue[l] # <<>>
            /\ Head(lockQueue[l]) # playerId[s] )
          => holders'[l] = {Head(lockQueue[l])}
    ]_vars

\* C9: when a lock passes from its holder to the head of the queue, a
\* lockResponse frame for the new holder is sent on the transport of every
\* attached session of the new holder
C9_HandoffOnWire ==
  [][\A s \in Sessions : \A l \in LockNames :
       ( /\ holders[l] # {}
         /\ holders'[l] # holders[l]
         /\ holders'[l] = {playerId[s]}
         /\ s \in Range(sessions')
         /\ wsOpen[s] )
       => \E i \in (Len(sent[s]) + 1)..Len(sent'[s]) :
            /\ sent'[s][i].type = "lockResponse"
            /\ sent'[s][i].body = LockResponse(playerId[s], l)
    ]_vars

\* C10: the holder of a lock is the playerId of a session in the session list
C10_HolderIsLive ==
  \A l \in LockNames : \A p \in holders[l] :
    \E s \in Range(sessions) : playerId[s] = p

\* the session listener of s dispatches a frame in this step
Dispatches(s) == Len(dispatched'[s]) = Len(dispatched[s]) + 1

\* the frame it dispatches
LastDispatched(s) == dispatched'[s][Len(dispatched'[s])]

\* C11 (as stated): when the dispatcher has finished processing a document-CRDT
\* update frame, the bytes stored under key 'crdt' equal the client's
\* state-as-update
C11_PersistedAfterDispatch ==
  [][\A s \in Sessions :
        Dispatches(s) /\ LastDispatched(s).cls = "crdt" => storageCrdt' = crdtState']_vars

\* C11 (amended): when the dispatcher has finished processing a document-CRDT
\* update frame, the latest storage.put issued under key 'crdt' carries the
\* client's state-as-update; the stored bytes equal that state when the last
\* put in flight completes successfully
C11_PersistedOnCompletion ==
  [][/\ \A s \in Sessions :
          Dispatches(s) /\ LastDispatched(s).cls = "crdt"
            => puts' # <<>> /\ puts'[Len(puts')] = crdtState'
     /\ (Len(puts') < Len(puts) /\ puts' = <<>> /\ storageCrdt' # storageCrdt)
          => storageCrdt' = crdtState']_vars

\* two updates were applied and the second one is the stored one
C11_Witness == crdtState = 2 /\ storageCrdt = 2 /\ puts = <<>>

\* the messages session t receives in this step
Received(t) == SubSeq(sent'[t], Len(sent[t]) + 1, Len(sent'[t]))

\* the number of copies of m among them
Copies(t, m) == Len(SelectSeq(Received(t), LAMBDA x : x = m))

\* frame f of session s is one that proxyMessageToPeers forwards
Proxied(f) == f.cls \in {"crdt", "audio", "video"} \/ (f.cls = "data" /\ f.op # "stale")

\* C12: an IRC frame sent by S is delivered to every session of the list, S
\* included; an accepted data frame, a document-CRDT, audio or video frame sent
\* by S is delivered to every other session of the list and never to S
\* (sessions whose socket is closed cannot be delivered to and are not counted)
C12_ReflectVsProxy ==
  [][\A s \in Sessions :
        Dispatches(s) =>
          LET f == LastDispatched(s)
              m == Msg("fwd", s, f)
          IN /\ f.cls = "irc" =>
                  \A t \in Range(sessions) : wsOpen[t] => Copies(t, m) = 1
             /\ Proxied(f) =>
                  /\ \A t \in Range(sessions) \ {s} : wsOpen[t] => Copies(t, m) = 1
                  /\ Copies(s, m) = 0]_vars

\* C15: when a send of a broadcast fails, every other session the primitive
\* targets still receives the message, wherever the failing session stands in
\* the list
C15_SendFailureDoesNotAbort ==
  [][\A s \in Sessions :
        (Dispatches(s) /\ LastDispatched(s).cls \in {"irc", "audio", "video"}
           /\ \E z \in Range(sessions) : ~wsOpen[z])
          => \A t \in Range(sessions) :
               (wsOpen[t] /\ (t # s \/ LastDispatched(s).cls = "irc"))
                 => Msg("fwd", s, LastDispatched(s)) \in Range(Received(t))]_vars

\* the remove frames the dead-hand cleanup of s owes: one per map-scope entry
\* whose key the array still holds, one per key of the array for an
\* array-scope entry
OwedRemoves(s) ==
  UNION {IF Len(k) = 2
           THEN (IF k[2] \in arrayKeys
                   THEN {Msg("remove", "server", Frame("data", "remove", k, "-"))}
                   ELSE {})
           ELSE {Msg("remove", "server", Frame("data", "remove", <<k[1], x>>, "-")) :
                   x \in arrayKeys}
         : k \in Range(deadHands[s])}

\* C13: when a session terminates, every remaining session receives, for every
\* entry of its deadHands table, the map-remove frames of that entry (remaining
\* sessions whose socket is closed cannot receive and are not counted)
C13_DeadHandCleanup ==
  [][\A s \in Sessions :
        Terminated(s) =>
          \A t \in Range(sessions') :
            wsOpen[t] => \A m \in OwedRemoves(s) : Copies(t, m) = 1]_vars

\* C14: when the data client rejects a data frame of session A (a rollback and
\* no update), the rollback is sent to A only and no other session is sent
\* anything because of that frame
C14_RollbackIsolation ==
  [][\A s \in Sessions :
        (Dispatches(s) /\ LastDispatched(s) \in StaleFrames)
          => /\ Received(s) = <<Msg("rollback", "server", LastDispatched(s))>>
             /\ \A t \in Sessions \ {s} : sent'[t] = sent[t]]_vars

\* a session got a rollback while another session with an open socket was in
\* the list
C14_Witness ==
  \E s \in Sessions, t \in Sessions :
    /\ s # t
    /\ {s, t} \subseteq Range(sessions)
    /\ wsOpen[t]
    /\ sent[s] # <<>>
    /\ sent[s][Len(sent[s])].type = "rollback"
    /\ sent[t] # <<>>
    /\ sent[t][Len(sent[t])].type = "networkinit"

\* C16: on every termination the handler sets quit, removes the session from
\* the list and runs the dead-hand cleanup and then the lock cleanup; the lock
\* cleanup runs even when a step of the dead-hand cleanup fails
C16_TerminationSteps ==
  [][\A s \in Sessions :
        Terminated(s) =>
          /\ s \notin Range(sessions')
          /\ holders' = TriggerUnlocks(s).holders
          /\ lockQueue' = TriggerUnlocks(s).queue
          /\ lockEmitted' = TriggerUnlocks(s).emitted]_vars

\* C17: a close or error event that follows the first one on the same socket
\* runs neither cleanup again and leaves the session list as it was
C17_HandlerIdempotent ==
  [][\A s \in Sessions :
        (events[s] >= 1 /\ events'[s] > events[s])
          => /\ sessions' = sessions
             /\ sent' = sent
             /\ quit' = quit
             /\ UNCHANGED lockVars]_vars

\* a session whose handler removed a dead hand from a live peer got a second event
C17_Witness ==
  \E s \in Sessions, t \in Sessions :
    /\ events[s] = 2
    /\ quit[s]
    /\ deadHands[s] # <<>>
    /\ t \in Range(sessions)
    /\ sent[t] # <<>>
    /\ sent[t][Len(sent[t])].type = "remove"

\* session s is appended to the session list in this step
Appended(s) == s \notin Range(sessions) /\ s \in Range(sessions')

\* the playerIds of the sessions of a list, without the null ones
NonNullIds(list) ==
  SelectSeq([i \in 1..Len(list) |-> playerId[list[i]]], LAMBDA p : p # Null)

\* C18 (as stated): a session is appended to the list only after its three
\* snapshots were sent and its subscriptions registered, so that its
\* network-init frame lists the non-null playerIds of the sessions attached
\* before it
C18_AppendedAfterSnapshots ==
  [][\A s \in Sessions :
        Appended(s) =>
          /\ Len(sent'[s]) >= 3
          /\ s \in dhListeners'
          /\ sent'[s][3] = Msg("networkinit", "server", NonNullIds(sessions))]_vars

\* C18 (amended): a session is appended to the list first; in the same run the
\* three snapshots are sent and then the subscriptions registered, and the
\* network-init frame lists the non-null playerIds of the list with the session
\* itself in it; when the first send throws, the run ends with the session in
\* the list, nothing sent and nothing registered
C18_AppendedBeforeSnapshots ==
  [][\A s \in Sessions :
        Appended(s) =>
          /\ sessions' = Append(sessions, s)
          /\ IF wsOpen[s]
               THEN /\ Len(sent'[s]) >= 3
                    /\ s \in dhListeners'
                    /\ sent'[s][1].type = "import"
                    /\ sent'[s][2].type = "crdtinit"
                    /\ sent'[s][3] = Msg("networkinit", "server", NonNullIds(sessions'))
               ELSE sent' = sent /\ dhListeners' = dhListeners]_vars

\* a session attached after another one and found both ids in its network-init
C18_Witness ==
  \E s \in Sessions :
    /\ SnapshotsSent(s)
    /\ Len(sent[s][3].body) = 2
    /\ sent[s][3].body[2] = playerId[s]

\* C19: when a session with a non-null playerId attaches, every other session
\* of the list receives join{playerId}, before any frame that originates from
\* the new session; when the playerId is null no join is sent and nothing is
\* emitted into the data client (an attach whose own socket is closed, and
\* peers whose socket is closed, are not counted)
C19_JoinAnnounced ==
  [][\A s \in Sessions :
        (Appended(s) /\ wsOpen[s]) =>
          LET join == Msg("join", "server", playerId[s])
          IN /\ \A t \in Range(sessions) :
                  /\ \A i \in 1..Len(sent[t]) : sent[t][i].from # s
                  /\ (wsOpen[t] /\ playerId[s] # Null) => Copies(t, join) = 1
                  /\ playerId[s] = Null => Received(t) = <<>>
             /\ playerId[s] = Null => joinEmits' = joinEmits]_vars

\* dispatching frame f of session s raises an exception: a text frame, or a
\* broadcast that meets a closed socket
Raises(s, f) ==
  \/ f.cls = "text"
  \/ f.cls = "irc" /\ \E z \in Range(sessions) : ~wsOpen[z]
  \/ Proxied(f) /\ \E z \in Range(sessions) \ {s} : ~wsOpen[z]

\* session s was sent an error message before
HadError(s) == \E i \in 1..Len(sent[s]) : sent[s][i].type = "error"

\* C20: a text frame, or an exception while a frame is dispatched, ends in one
\* JSON {error} message to the originating session and to no other; the
\* session stays in the list with quit unset and its listeners in place, and
\* the frames it sends afterwards are dispatched
C20_ErrorToOriginator ==
  [][\A s \in Sessions :
        /\ (Dispatches(s) /\ Raises(s, LastDispatched(s))) =>
             /\ Copies(s, Msg("error", "server", LastDispatched(s))) = 1
             /\ \A t \in Sessions \ {s} :
                  \A i \in 1..Len(Received(t)) : Received(t)[i].type # "error"
             /\ sessions' = sessions
             /\ s \in Range(sessions')
             /\ ~quit'[s]
             /\ msgHandlers' = msgHandlers
        /\ (HadError(s) /\ pc[s] = "open" /\ ~quit[s] /\ arrived'[s] # arrived[s])
             => Dispatches(s)]_vars

\* a session sent a text frame, got the error, and had a later frame reflected
\* to it
C20_Witness ==
  \E s \in Sessions :
    /\ pc[s] = "open"
    /\ s \in Range(sessions)
    /\ ~quit[s]
    /\ Len(dispatched[s]) >= 2
    /\ dispatched[s][1].cls = "text"
    /\ dispatched[s][2].cls = "irc"
    /\ HadError(s)
    /\ sent[s][Len(sent[s])] = Msg("fwd", s, dispatched[s][2])

\* C21: a session attached with a null playerId has an empty deadHands table,
\* and the null playerId is neither holder nor waiter of any lock
C21_NullOwnsNothing ==
  /\ \A s \in Sessions : (pc[s] # "new" /\ playerId[s] = Null) => deadHands[s] = <<>>
  /\ \A l \in LockNames : Null \notin holders[l] /\ Null \notin Range(lockQueue[l])

\* the room-state initialization that the attach of s awaits has failed
InitFailed(s) ==
  /\ pc[s] # "new"
  /\ \/ dataPromise[my[s].data].st = "rejected"
     \/ crdtPromise[my[s].crdt].st = "rejected"

\* C22: an attach that awaits a failed room-state initialization never gets
\* past its awaits: its session is not in the list and nothing was sent to it
C22_InitFailurePropagates ==
  \A s \in Sessions :
    InitFailed(s) =>
      /\ pc[s] \in {"awaiting", "failed"}
      /\ s \notin Range(sessions)
      /\ sent[s] = <<>>

\* two attaches awaited the same failed initialization and both failed
C22_Witness ==
  /\ InitFailed("s1")
  /\ InitFailed("s2")
  /\ my["s1"] = my["s2"]
  /\ pc["s1"] = "failed"
  /\ pc["s2"] = "failed"

\* the maps a dead-hand cleanup removed from the replica of a session that is
\* still attached
RemovedAtPeers ==
  {x \in MapIds :
     \E t \in Range(sessions) :
       Msg("remove", "server", Frame("data", "remove", <<"worldApps", x>>, "-"))
         \in Range(sent[t])}

\* C23: the import snapshot sent to a session that attaches after a dead-hand
\* cleanup does not contain a map the cleanup removed from the peers
C23_ConvergesAfterCleanup ==
  [][\A s \in Sessions :
        (Appended(s) /\ wsOpen[s]) => sent'[s][1].body \cap RemovedAtPeers = {}]_vars

\* C24: a data update accepted from a session is forwarded exactly once to
\* every other session whose import snapshot was taken before it, and not at
\* all to a session whose snapshot is still to be taken (sessions whose socket
\* is closed are not counted)
C24_NoGapNoDuplicate ==
  [][\A t \in Sessions :
        (Dispatches(t) /\ LastDispatched(t).cls = "data" /\ LastDispatched(t).op # "stale")
          => \A s \in Sessions \ {t} :
               /\ (SnapshotsSent(s) /\ s \in Range(sessions) /\ wsOpen[s])
                    => Copies(s, Msg("fwd", t, LastDispatched(t))) = 1
               /\ ~SnapshotsSent(s) => Received(s) = <<>>]_vars

\* C25: every session of the list has quit unset and its close / error handler
\* registered
C25_NoZombie ==
  \A s \in Range(sessions) : ~quit[s] /\ closeHandlers[s]

\* the room's data client or document-CRDT initialization has failed
RoomInitFailed ==
  \/ dataClientPromises # 0 /\ dataPromise[dataClientPromises].st = "rejected"
  \/ crdtClientPromises # 0 /\ crdtPromise[crdtClientPromises].st = "rejected"

\* C26: the entries of the room in the three promise maps are never replaced;
\* an attach that starts after the initialization failed issues no storage
\* read, awaits the failed promises and does not get past its awaits
C26_FailureSticky ==
  [][/\ dataClientPromises # 0 => dataClientPromises' = dataClientPromises
     /\ crdtClientPromises # 0 => crdtClientPromises' = crdtClientPromises
     /\ lockClientPromises # 0 => lockClientPromises' = lockClientPromises
     /\ \A s \in Sessions :
          /\ (pc[s] = "new" /\ pc'[s] # "new" /\ RoomInitFailed)
               => /\ reads' = reads
                  /\ my'[s] = [data |-> dataClientPromises, crdt |-> crdtClientPromises,
                                lock |-> lockClientPromises]
          /\ (pc[s] = "awaiting" /\ InitFailed(s)) => pc'[s] \in {"awaiting", "failed"}]_vars

\* the data read failed, a second attach started after that, and both failed
\* on one read of each key
C26_Witness ==
  /\ my["s1"] = my["s2"]
  /\ pc["s1"] = "failed"
  /\ pc["s2"] = "failed"
  /\ dataPromise[my["s1"].data].st = "rejected"
  /\ ~pendingAtAccept["s1"]
  /\ ~pendingAtAccept["s2"]
  /\ reads["worldApps"] = 1
  /\ reads["crdt"] = 1

====
